---- MODULE Spec2Model ----
(***************************************************************************)
(* ParkingEnv (highway_env/envs/parking_env.py): the parking-lot builder,  *)
(* vehicle and goal placement, the weighted p-norm reward with its success *)
(* predicate, and the episode termination decision.                        *)
(*                                                                         *)
(* Numbers.  Lengths, speeds and the cos/sin features are integers in      *)
(* tenths (4.0 m is 40, cos = 1 is 10).  The reward weights are the        *)
(* configured weights times 1000, so that the weighted distance            *)
(*     d = dot(|achieved - desired|, weights)                              *)
(* is an integer in units of 10^-4.  The reward -d^p is kept in units of   *)
(* (10^-4)^p, rounded toward zero: for the default p = 0.5 the unit is     *)
(* 10^-2, in which the default success threshold 0.12 is 12.               *)
(* Headings are quarter turns 0..3 (0, pi/2, pi, 3pi/2).                   *)
(***************************************************************************)
EXTENDS Integers, Sequences, FiniteSets

VARIABLES
    config,               \* self.config (the options the model reads)
    np_random,            \* self.np_random: the state of the seeded generator
    road,                 \* self.road: [network, vehicles, objects]
    controlled_vehicles,  \* self.controlled_vehicles, in spawn order
    goal,                 \* self.goal
    steps,                \* self.steps
    out,                  \* what the last reset/step call returned or raised
    reset_rng,            \* generator state the last reset started from
    first,                \* generator state and outcome of the reset at construction
    episode,              \* resets since construction (bounds the model)
    spots,                \* _create_road: the spots argument
    k                     \* _create_road: the loop index

vars == <<config, np_random, road, controlled_vehicles, goal, steps, out,
          reset_rng, first, episode, spots, k>>

----------------------------------------------------------------------------
(* Bounds of the model *)

MaxSpots == 16
MaxVehicles == 2
MaxDuration == 3
MaxEpisodes == 1
MaxOffset == 12
NumSeeds == 2

----------------------------------------------------------------------------
(* _create_road *)

DefaultSpots == 15
width == 40
x_offset == 0
y_offset == 100
length == 80

\* RoadNetwork(): graph "a" -> "b" -> "c", no lane yet
EmptyNetwork == [ab |-> << >>, bc |-> << >>]

\* StraightLane(start, end, width=width, line_types=(CONTINUOUS, CONTINUOUS))
StraightLane(start, end) ==
    [start |-> start, end |-> end, width |-> width,
     line_types |-> <<"CONTINUOUS", "CONTINUOUS">>]

\* variant: the centering offset rounded up instead of down
SlotX_ceil(n, i) == (i - ((n + 1) \div 2)) * (width + x_offset) - (width \div 2)

\* x = (k - spots // 2) * (width + x_offset) - width / 2
SlotX(n, i) == (i - (n \div 2)) * (width + x_offset) - (width \div 2)

\* the two lanes iteration i of the for loop creates
SlotLanes(n, i) ==
    [ab |-> StraightLane(<<SlotX(n, i), y_offset>>,
                         <<SlotX(n, i), y_offset + length>>),
     bc |-> StraightLane(<<SlotX(n, i), -y_offset>>,
                         <<SlotX(n, i), -y_offset - length>>)]

\* one iteration of the for loop: the two net.add_lane calls
AddSlot(net, n, i) ==
    [ab |-> Append(net.ab, SlotLanes(n, i).ab),
     bc |-> Append(net.bc, SlotLanes(n, i).bc)]

\* the network after the whole loop: iterations 0..n-1, in order
CreateNetwork(n) ==
    [ab |-> [i \in 1..n |-> SlotLanes(n, i - 1).ab],
     bc |-> [i \in 1..n |-> SlotLanes(n, i - 1).bc]]

\* RoadNetwork.lanes_list(): every lane of the graph, edge by edge
lanes_list(net) == net.ab \o net.bc

----------------------------------------------------------------------------
(* The seeded random source (numpy's RandomState, outside the repository):  *)
(* a deterministic generator whose whole state is np_random.                *)

\* seeding.np_random(seed): the generator state a seed gives
SeedState(seed) == (seed * 29 + 7) % 64

\* the generator state after one draw
RngNext(s) == (s * 5 + 3) % 64

\* the generator state after n draws
RECURSIVE RngAfter(_, _)
RngAfter(s, n) == IF n = 0 THEN s ELSE RngAfter(RngNext(s), n - 1)

\* 2*np.pi*np_random.rand() drawn in state s, as a quarter turn
RandHeading(s) == (4 * s) \div 64

\* np_random.choice(seq) drawn in state s
RandChoice(s, seq) == seq[((Len(seq) * s) \div 64) + 1]

----------------------------------------------------------------------------
(* Lanes, vehicles and the goal: the collaborators' interfaces *)

\* unit vector of a heading: [cos(h), sin(h)]
Direction(h) ==
    CASE h = 0 -> <<1, 0>>
      [] h = 1 -> <<0, 1>>
      [] h = 2 -> <<-1, 0>>
      [] h = 3 -> <<0, -1>>

Abs(a) == IF a < 0 THEN -a ELSE a

\* StraightLane.length
LaneLength(lane) ==
    Abs(lane.end[1] - lane.start[1]) + Abs(lane.end[2] - lane.start[2])

\* StraightLane.heading, as a quarter turn (the lanes are axis-parallel)
LaneHeading(lane) ==
    IF lane.end[2] > lane.start[2] THEN 1
    ELSE IF lane.end[2] < lane.start[2] THEN 3
    ELSE IF lane.end[1] < lane.start[1] THEN 2 ELSE 0

\* StraightLane.position(longitudinal, 0)
LanePosition(lane, longitudinal) ==
    <<lane.start[1] + longitudinal * Direction(LaneHeading(lane))[1],
      lane.start[2] + longitudinal * Direction(LaneHeading(lane))[2]>>

\* vehicle_class(road, position, heading, speed)
Vehicle(position, heading, speed) ==
    [position |-> position, heading |-> heading, speed |-> speed,
     crashed |-> FALSE]

\* Landmark(road, position, heading=heading)
Landmark(position, heading) ==
    [position |-> position, heading |-> heading, speed |-> 0]

\* to_dict(): the feature record of a vehicle or of the goal
to_dict(obj) ==
    [x |-> obj.position[1],
     y |-> obj.position[2],
     vx |-> obj.speed * Direction(obj.heading)[1],
     vy |-> obj.speed * Direction(obj.heading)[2],
     cos_h |-> 10 * Direction(obj.heading)[1],
     sin_h |-> 10 * Direction(obj.heading)[2]]

----------------------------------------------------------------------------
(* default_config and the configurations the model explores *)

default_reward_features == <<"x", "y", "vx", "vy", "cos_h", "sin_h">>

\* [1/100, 0.3/100, 0, 0, 0.02, 0.02], times 1000
default_reward_weights == <<10, 3, 0, 0, 20, 20>>

\* 0.12, in units of 10^-2
success_goal_reward == 12

\* default_config with the given controlled-vehicle count and duration
DefaultConfig(n, d) ==
    [observation |-> [type |-> "KinematicsGoal"],
     reward_features |-> default_reward_features,
     reward_weights |-> default_reward_weights,
     success_goal_reward |-> success_goal_reward,
     duration |-> d,
     controlled_vehicles |-> n]

\* a weight vector with every weight positive, and one that is shorter
\* than the feature list
PositiveWeights == <<10, 3, 2, 2, 20, 20>>
ShortWeights == <<10, 3, 0, 0, 20>>

\* the configurations the environment is built with: the default with every
\* vehicle count and duration, and for every vehicle count the multi-agent
\* observation and the two other weight vectors
Configs ==
    {DefaultConfig(n, d) : n \in 1..MaxVehicles, d \in 0..MaxDuration}
    \cup
    {[DefaultConfig(n, MaxDuration) EXCEPT
         !.observation.type = "MultiAgentObservation"] : n \in 1..MaxVehicles}
    \cup
    {[DefaultConfig(n, MaxDuration) EXCEPT !.reward_weights = w] :
         n \in 1..MaxVehicles, w \in {PositiveWeights, ShortWeights}}

----------------------------------------------------------------------------
(* compute_reward, _reward, _is_success, _is_terminal, _info *)

\* the largest r with r * r <= d
ISqrt(d) == CHOOSE r \in 0..d : r * r <= d /\ (r + 1) * (r + 1) > d

\* np.power(d, p) for d >= 0, in units of (10^-4)^p, rounded toward zero
Power(d, p) ==
    CASE p = "0" -> 1
      [] p = "0.5" -> ISqrt(d)
      [] p = "1" -> d
      [] p = "2" -> d * d

Exponents == {"0", "0.5", "1", "2"}

\* np.ravel(pd.DataFrame.from_records([obj.to_dict()])[features])
Features(obj, features) ==
    [i \in 1..Len(features) |-> to_dict(obj)[features[i]]]

\* np.dot(a, b) of two vectors of the same length
RECURSIVE DotFrom(_, _, _)
DotFrom(a, b, i) ==
    IF i > Len(a) THEN 0 ELSE a[i] * b[i] + DotFrom(a, b, i + 1)

\* np.dot raises ValueError on vectors of different lengths
DotRaises(cfg) == Len(cfg.reward_features) # Len(cfg.reward_weights)

\* -np.power(np.dot(np.abs(achieved_goal - desired_goal), weights), p)
RewardOf(cfg, vehicle, desired_goal, p) ==
    LET achieved == Features(vehicle, cfg.reward_features)
        desired == Features(desired_goal, cfg.reward_features)
        diff == [i \in 1..Len(achieved) |-> Abs(achieved[i] - desired[i])]
    IN  -Power(DotFrom(diff, cfg.reward_weights, 1), p)

\* self, as the methods below read it
Self == [config |-> config, controlled_vehicles |-> controlled_vehicles,
         goal |-> goal, steps |-> steps]

\* variant: the negation dropped
compute_reward_positive(self, vehicle, desired_goal, p) ==
    -RewardOf(self.config, vehicle, desired_goal, p)

compute_reward(self, vehicle, desired_goal, p) ==
    RewardOf(self.config, vehicle, desired_goal, p)

RECURSIVE SumFrom(_, _)
SumFrom(seq, i) == IF i > Len(seq) THEN 0 ELSE seq[i] + SumFrom(seq, i + 1)

_reward(self) ==
    SumFrom([i \in 1..Len(self.controlled_vehicles) |->
                compute_reward(self, self.controlled_vehicles[i], self.goal,
                               "0.5")], 1)

\* variant: >= instead of >
_is_success_inclusive(self, vehicle, desired_goal) ==
    compute_reward(self, vehicle, desired_goal, "0.5")
        >= -self.config.success_goal_reward

_is_success(self, vehicle, desired_goal) ==
    compute_reward(self, vehicle, desired_goal, "0.5")
        > -self.config.success_goal_reward

\* variant: success of any vehicle instead of all
_is_terminal_any(self) ==
    LET time == self.steps >= self.config.duration
        crashed == \E i \in 1..Len(self.controlled_vehicles) :
                      self.controlled_vehicles[i].crashed
        success == \E i \in 1..Len(self.controlled_vehicles) :
                      _is_success(self, self.controlled_vehicles[i], self.goal)
    IN  time \/ crashed \/ success

\* variant: > instead of >= in the time check
_is_terminal_late(self) ==
    LET time == self.steps > self.config.duration
        crashed == \E i \in 1..Len(self.controlled_vehicles) :
                      self.controlled_vehicles[i].crashed
        success == \A i \in 1..Len(self.controlled_vehicles) :
                      _is_success(self, self.controlled_vehicles[i], self.goal)
    IN  time \/ crashed \/ success

\* variant: == instead of >= in the time check
_is_terminal_exact(self) ==
    LET time == self.steps = self.config.duration
        crashed == \E i \in 1..Len(self.controlled_vehicles) :
                      self.controlled_vehicles[i].crashed
        success == \A i \in 1..Len(self.controlled_vehicles) :
                      _is_success(self, self.controlled_vehicles[i], self.goal)
    IN  time \/ crashed \/ success

_is_terminal(self) ==
    LET time == self.steps >= self.config.duration
        crashed == \E i \in 1..Len(self.controlled_vehicles) :
                      self.controlled_vehicles[i].crashed
        success == \A i \in 1..Len(self.controlled_vehicles) :
                      _is_success(self, self.controlled_vehicles[i], self.goal)
    IN  time \/ crashed \/ success

\* AbstractEnv.vehicle: the first controlled vehicle
FirstVehicle(self) == self.controlled_vehicles[1]

\* variant: the tuple built over the vehicles in reverse
_info_reversed(self) ==
    IF self.config.observation.type = "MultiAgentObservation"
    THEN [kind |-> "tuple",
          value |-> [i \in 1..Len(self.controlled_vehicles) |->
                        _is_success(self,
                            self.controlled_vehicles[
                                Len(self.controlled_vehicles) + 1 - i],
                            self.goal)]]
    ELSE [kind |-> "bool",
          value |-> _is_success(self, FirstVehicle(self), self.goal)]

\* the value _info stores under "is_success"
_info(self) ==
    IF self.config.observation.type = "MultiAgentObservation"
    THEN [kind |-> "tuple",
          value |-> [i \in 1..Len(self.controlled_vehicles) |->
                        _is_success(self, self.controlled_vehicles[i],
                                    self.goal)]]
    ELSE [kind |-> "bool",
          value |-> _is_success(self, FirstVehicle(self), self.goal)]

----------------------------------------------------------------------------
(* _reset: _create_road and _create_vehicles *)

\* self.road = Road(network=net, ...): no vehicle and no object yet
_create_road(n) ==
    [network |-> CreateNetwork(n), vehicles |-> << >>, objects |-> << >>]

\* the vehicle the i-th loop iteration (i = 0, 1, ...) creates, the
\* generator being in state rng when the loop starts
SpawnedVehicle(i, rng) ==
    Vehicle(<<i * 200, 0>>, RandHeading(RngAfter(rng, i)), 0)

\* variant: the goal at the start of the lane instead of its midpoint
GoalOn_start(lane) ==
    Landmark(LanePosition(lane, 0), LaneHeading(lane))

\* Landmark(self.road, lane.position(lane.length/2, 0), heading=lane.heading)
GoalOn(lane) ==
    Landmark(LanePosition(lane, LaneLength(lane) \div 2), LaneHeading(lane))

\* variant: the goal lane drawn before the headings
_create_vehicles_goal_first(rd, rng) ==
    LET n == config.controlled_vehicles
        lane == RandChoice(rng, lanes_list(rd.network))
    IN  [controlled_vehicles |->
             [i \in 1..n |-> SpawnedVehicle(i - 1, RngNext(rng))],
         goal |-> GoalOn(lane),
         road |-> [network |-> rd.network,
                   vehicles |-> rd.vehicles \o [i \in 1..n |-> i],
                   objects |-> Append(rd.objects, GoalOn(lane))],
         np_random |-> RngAfter(rng, n + 1)]

\* _create_vehicles on the road rd with the generator in state rng:
\* the new controlled_vehicles, road, goal and generator state.
\* road.vehicles holds the vehicles by their index in controlled_vehicles.
_create_vehicles(rd, rng) ==
    LET n == config.controlled_vehicles
        lane == RandChoice(RngAfter(rng, n), lanes_list(rd.network))
    IN  [controlled_vehicles |-> [i \in 1..n |-> SpawnedVehicle(i - 1, rng)],
         goal |-> GoalOn(lane),
         road |-> [network |-> rd.network,
                   vehicles |-> rd.vehicles \o [i \in 1..n |-> i],
                   objects |-> Append(rd.objects, GoalOn(lane))],
         np_random |-> RngAfter(rng, n + 1)]

_reset(rng) == _create_vehicles(_create_road(DefaultSpots), rng)

\* what one reset produced, as far as two resets can be compared
Outcome == [road |-> road, controlled_vehicles |-> controlled_vehicles,
            goal |-> goal]

\* before any call
NoOut == [op |-> "none", raised |-> "none", reward |-> 0, terminal |-> FALSE,
          info |-> [kind |-> "none", value |-> FALSE]]

ResetOut == [op |-> "reset", raised |-> "none", reward |-> 0,
             terminal |-> FALSE, info |-> [kind |-> "none", value |-> FALSE]]

----------------------------------------------------------------------------
(* The environment: construction, reset, step, seed *)

\* AbstractEnv.__init__: configure, seed, reset
Init ==
    /\ config \in Configs
    /\ \E seed \in 0..(NumSeeds - 1) :
          /\ reset_rng = SeedState(seed)
          /\ controlled_vehicles = _reset(reset_rng).controlled_vehicles
          /\ goal = _reset(reset_rng).goal
          /\ road = _reset(reset_rng).road
          /\ np_random = _reset(reset_rng).np_random
    /\ steps = 0
    /\ out = ResetOut
    /\ first = [rng |-> reset_rng, outcome |-> Outcome]
    /\ episode = 0
    /\ spots = DefaultSpots
    /\ k = DefaultSpots

\* AbstractEnv.reset: steps = 0, then _reset
Reset ==
    /\ episode < MaxEpisodes
    /\ episode' = episode + 1
    /\ reset_rng' = np_random
    /\ steps' = 0
    /\ controlled_vehicles' = _reset(np_random).controlled_vehicles
    /\ goal' = _reset(np_random).goal
    /\ road' = _reset(np_random).road
    /\ np_random' = _reset(np_random).np_random
    /\ out' = ResetOut
    /\ UNCHANGED <<config, first, spots, k>>

\* where the kinematics may have put a vehicle by the end of a step: where
\* it was, on the goal, or beside the goal (1.2 m and 0.8 m off)
Poses(v) ==
    {[position |-> v.position, heading |-> v.heading, speed |-> v.speed]}
    \cup
    {[position |-> <<goal.position[1] + m[1], goal.position[2] + m[2]>>,
      heading |-> goal.heading, speed |-> 0] : m \in {<<0, 0>>, <<12, 8>>}}

\* a vehicle after a step: moved, or crashed where it was; a crashed
\* vehicle stays where it is and its flag is never cleared
Moves(v) ==
    IF v.crashed THEN {v}
    ELSE {[position |-> q.position, heading |-> q.heading,
           speed |-> q.speed, crashed |-> FALSE] : q \in Poses(v)}
         \cup {[v EXCEPT !.crashed = TRUE]}

\* AbstractEnv._simulate: every controlled vehicle moved
RECURSIVE SimulateFrom(_, _)
SimulateFrom(vs, i) ==
    IF i > Len(vs) THEN {<< >>}
    ELSE {<<m>> \o rest : m \in Moves(vs[i]), rest \in SimulateFrom(vs, i + 1)}

\* what step returns: (obs, reward, terminal, info), or the exception
StepOut(self) ==
    IF DotRaises(self.config)
    THEN [op |-> "step", raised |-> "ValueError", reward |-> 0,
          terminal |-> FALSE, info |-> [kind |-> "none", value |-> FALSE]]
    ELSE [op |-> "step", raised |-> "none", reward |-> _reward(self),
          terminal |-> _is_terminal(self), info |-> _info(self)]

\* AbstractEnv.step: steps += 1, simulate, then reward, terminal, info
Step ==
    /\ steps < MaxDuration
    /\ \E moved \in SimulateFrom(controlled_vehicles, 1) :
          /\ steps' = steps + 1
          /\ controlled_vehicles' = moved
          /\ out' = StepOut([config |-> config, controlled_vehicles |-> moved,
                             goal |-> goal, steps |-> steps + 1])
    /\ UNCHANGED <<config, goal, np_random, road, reset_rng, first, episode,
                   spots, k>>

\* AbstractEnv.seed(seed)
Seed ==
    /\ \E seed \in 0..(NumSeeds - 1) : np_random' = SeedState(seed)
    /\ UNCHANGED <<config, road, controlled_vehicles, goal, steps, out,
                   reset_rng, first, episode, spots, k>>

Next == Reset \/ Step

Spec == Init /\ [][Next]_vars

----------------------------------------------------------------------------
(* The environment re-seeded between resets: the default configurations,   *)
(* at most one step per episode                                            *)

InitSeed == Init /\ config \in {DefaultConfig(n, MaxDuration) : n \in 1..MaxVehicles}

StepOnce == steps < 1 /\ Step

NextSeed == Reset \/ StepOnce \/ Seed

SpecSeed == InitSeed /\ [][NextSeed]_vars

----------------------------------------------------------------------------
(* compute_reward and _is_success on their own: one vehicle around the     *)
(* goal, every weight vector of the right length, every exponent           *)

RewardConfigs ==
    {[DefaultConfig(1, MaxDuration) EXCEPT !.reward_weights = w] :
        w \in {default_reward_weights, PositiveWeights}}

InitReward ==
    /\ config \in RewardConfigs
    /\ road = _create_road(DefaultSpots)
    /\ \E lane \in {road.network.ab[1], road.network.bc[DefaultSpots]} :
          goal = GoalOn(lane)
    /\ \E dx \in (-MaxOffset)..MaxOffset, dy \in {-8, 0, 8},
          h \in 0..3, v \in {0, 10} :
          controlled_vehicles =
              <<Vehicle(<<goal.position[1] + dx, goal.position[2] + dy>>, h, v)>>
    /\ np_random = 0
    /\ steps = 0
    /\ out = NoOut
    /\ reset_rng = 0
    /\ first = [rng |-> 0]
    /\ episode = 0
    /\ spots = DefaultSpots
    /\ k = DefaultSpots

\* one call of compute_reward with exponent p, and one of _is_success
Evaluate ==
    /\ \E p \in Exponents :
          out' = [op |-> "compute_reward", p |-> p,
                  reward |-> compute_reward(Self, controlled_vehicles[1], goal, p),
                  is_success |-> _is_success(Self, controlled_vehicles[1], goal)]
    /\ UNCHANGED <<config, np_random, road, controlled_vehicles, goal, steps,
                   reset_rng, first, episode, spots, k>>

NextReward == Evaluate

SpecReward == InitReward /\ [][NextReward]_vars

----------------------------------------------------------------------------
(* The lot builder run on its own, one loop iteration per step *)

InitLot ==
    /\ spots \in 1..MaxSpots
    /\ k = 0
    /\ road = [network |-> EmptyNetwork, vehicles |-> << >>, objects |-> << >>]
    /\ config = [controlled_vehicles |-> 1]
    /\ np_random = 0
    /\ controlled_vehicles = << >>
    /\ goal = [position |-> <<0, 0>>, heading |-> 0, speed |-> 0]
    /\ steps = 0
    /\ out = NoOut
    /\ reset_rng = 0
    /\ first = [rng |-> 0]
    /\ episode = 0

LotAddSlot ==
    /\ k < spots
    /\ road' = [road EXCEPT !.network = AddSlot(road.network, spots, k)]
    /\ k' = k + 1
    /\ UNCHANGED <<config, np_random, controlled_vehicles, goal, steps, out,
                   reset_rng, first, episode, spots>>

NextLot == LotAddSlot

SpecLot == InitLot /\ [][NextLot]_vars

----------------------------------------------------------------------------
(* Properties *)

StepReturned == out.op = "step" /\ out.raised = "none"

AnyCrashed == \E i \in 1..Len(controlled_vehicles) : controlled_vehicles[i].crashed

SuccessOf(i) == _is_success(Self, controlled_vehicles[i], goal)

AllSuccess == \A i \in 1..Len(controlled_vehicles) : SuccessOf(i)

\* the episode monitor's decision, in its priority order
Decision ==
    IF steps >= config.duration THEN "TIMEOUT"
    ELSE IF AnyCrashed THEN "COLLISION"
    ELSE IF AllSuccess THEN "SUCCESS"
    ELSE "RUNNING"

\* C1: the terminal flag every step returns is the monitor's decision taken
\* in the order TIMEOUT, COLLISION, SUCCESS, else RUNNING; success of only
\* some of the vehicles, with no crash and steps < duration, does not
\* terminate the episode.
C1_TerminalIsPriorityDecision ==
    StepReturned =>
        /\ out.terminal = (Decision # "RUNNING")
        /\ (/\ steps < config.duration
            /\ ~AnyCrashed
            /\ \E i \in 1..Len(controlled_vehicles) : ~SuccessOf(i))
           => ~out.terminal

C1_PartialSuccessRuns ==
    /\ StepReturned
    /\ steps < config.duration
    /\ ~AnyCrashed
    /\ \E i, j \in 1..Len(controlled_vehicles) : SuccessOf(i) /\ ~SuccessOf(j)
    /\ ~out.terminal

\* C2: with duration D > 0, at a step where no controlled vehicle has crashed
\* and not all vehicles succeed, the terminal flag is false while steps < D
\* and true once steps = D.
C2_TimeoutAtDuration ==
    (StepReturned /\ config.duration > 0 /\ ~AnyCrashed /\ ~AllSuccess) =>
        /\ steps < config.duration => ~out.terminal
        /\ steps = config.duration => out.terminal

C2_TimedOutAtD ==
    /\ StepReturned
    /\ config.duration > 1
    /\ steps = config.duration
    /\ ~AnyCrashed
    /\ ~AllSuccess
    /\ out.terminal

\* the weighted distance of the evaluated vehicle to the goal, in 10^-4
WeightedDistance ==
    LET a == to_dict(controlled_vehicles[1])
        g == to_dict(goal)
        w == config.reward_weights
    IN  w[1] * Abs(a.x - g.x) + w[2] * Abs(a.y - g.y)
        + w[3] * Abs(a.vx - g.vx) + w[4] * Abs(a.vy - g.vy)
        + w[5] * Abs(a.cos_h - g.cos_h) + w[6] * Abs(a.sin_h - g.sin_h)

\* C3: _is_success is true exactly when the reward (p = 0.5) is strictly
\* greater than -success_goal_reward: at a reward of exactly -0.12
\* (weighted distance 0.0144) it is false.
C3_SuccessIsStrict ==
    (out.op = "compute_reward" /\ out.p = "0.5") =>
        /\ out.is_success = (out.reward > -12)
        /\ WeightedDistance = 144 => ~out.is_success
        /\ WeightedDistance < 144 => out.is_success

C3_AtThreshold ==
    /\ out.op = "compute_reward"
    /\ out.p = "0.5"
    /\ WeightedDistance = 144
    /\ ~out.is_success

\* every configured feature of the vehicle equals that of the goal
FeaturesMatch ==
    Features(controlled_vehicles[1], config.reward_features)
        = Features(goal, config.reward_features)

\* every configured feature with a nonzero weight equals that of the goal
WeightedFeaturesMatch ==
    \A i \in 1..Len(config.reward_features) :
        config.reward_weights[i] # 0 =>
            Features(controlled_vehicles[1], config.reward_features)[i]
                = Features(goal, config.reward_features)[i]

\* C4 as stated: the reward is <= 0, and 0 exactly when every configured
\* feature of the vehicle equals that of the goal, for any exponent.
C4_ZeroOnlyAtExactMatch ==
    out.op = "compute_reward" =>
        /\ out.reward <= 0
        /\ (out.reward = 0) = FeaturesMatch

\* C4, amended: the reward is <= 0, and for an exponent p > 0 it is 0 exactly
\* when every feature whose weight is not 0 equals that of the goal.
C4_ZeroAtWeightedMatch ==
    out.op = "compute_reward" =>
        /\ out.reward <= 0
        /\ out.p # "0" => ((out.reward = 0) = WeightedFeaturesMatch)

C4_ZeroWithVelocityMismatch ==
    /\ out.op = "compute_reward"
    /\ out.p = "0.5"
    /\ config.reward_weights = default_reward_weights
    /\ out.reward = 0
    /\ ~FeaturesMatch
    /\ WeightedFeaturesMatch

\* C5 as stated: the success value is a single boolean when there is exactly
\* one controlled vehicle, and otherwise a sequence with one entry per
\* controlled vehicle in spawn order.
C5_InfoShapeByVehicleCount ==
    StepReturned =>
        IF Len(controlled_vehicles) = 1
        THEN out.info.kind = "bool" /\ out.info.value = SuccessOf(1)
        ELSE /\ out.info.kind = "tuple"
             /\ Len(out.info.value) = config.controlled_vehicles
             /\ \A i \in 1..Len(controlled_vehicles) :
                   out.info.value[i] = SuccessOf(i)

\* C5, amended: the success value is a sequence with one entry per controlled
\* vehicle, in spawn order, when the observation type is the multi-agent one
\* (whatever the vehicle count), and otherwise the single boolean of the
\* first controlled vehicle.
C5_InfoShapeByObservationType ==
    StepReturned =>
        IF config.observation.type = "MultiAgentObservation"
        THEN /\ out.info.kind = "tuple"
             /\ Len(out.info.value) = config.controlled_vehicles
             /\ \A i \in 1..Len(controlled_vehicles) :
                   out.info.value[i] = SuccessOf(i)
        ELSE out.info.kind = "bool" /\ out.info.value = SuccessOf(1)

C5_OrderedTuple ==
    /\ StepReturned
    /\ config.observation.type = "MultiAgentObservation"
    /\ Len(controlled_vehicles) = 2
    /\ out.info.kind = "tuple"
    /\ out.info.value = <<TRUE, FALSE>>

\* a configuration the error-handling design accepts
ValidConfig(cfg) ==
    /\ Len(cfg.reward_features) = Len(cfg.reward_weights)
    /\ cfg.duration > 0

\* C6: under a configuration with feature and weight lists of different
\* lengths or a non-positive duration, no reset completes and no step
\* returns: every call raises a configuration error.
C6_InvalidConfigRejected ==
    ~ValidConfig(config) => out.raised = "ConfigurationError"

\* the x of slot i of n, as the layout rule gives it
LayoutX(n, i) == (i - (n \div 2)) * 40 - 20

\* C7: once the loop has run for n slots the network holds 2n lanes, for
\* each slot i one from (x, 10) to (x, 18) and one from (x, -10) to
\* (x, -18) with x = (i - floor(n/2)) * 4 - 2; for n = 15 that is 30 lanes,
\* 15 on each side, their x symmetric around -2.
C7_LotLayout ==
    k = spots =>
        LET lanes == lanes_list(road.network)
        IN  /\ Len(lanes) = 2 * spots
            /\ Len(road.network.ab) = spots
            /\ Len(road.network.bc) = spots
            /\ \A i \in 0..(spots - 1) :
                  /\ road.network.ab[i + 1].start = <<LayoutX(spots, i), 100>>
                  /\ road.network.ab[i + 1].end = <<LayoutX(spots, i), 180>>
                  /\ road.network.bc[i + 1].start = <<LayoutX(spots, i), -100>>
                  /\ road.network.bc[i + 1].end = <<LayoutX(spots, i), -180>>
            /\ spots = 15 =>
                  /\ Len(lanes) = 30
                  /\ Cardinality({j \in 1..Len(lanes) : lanes[j].end[2] > 0}) = 15
                  /\ Cardinality({j \in 1..Len(lanes) : lanes[j].end[2] < 0}) = 15
                  /\ \A j \in 1..Len(lanes) : \E m \in 1..Len(lanes) :
                        /\ lanes[m].start[1] = -40 - lanes[j].start[1]
                        /\ lanes[m].start[2] = lanes[j].start[2]

C7_DefaultLotBuilt ==
    /\ spots = 15
    /\ k = spots
    /\ Len(lanes_list(road.network)) = 30

\* C8: a reset started from the generator state of the reset at construction
\* gives the same network, the same vehicles in the same order and the same
\* goal as that reset did; the i-th vehicle's heading is the i-th draw and
\* the goal lane the draw after the last heading.
C8_ResetDeterministic ==
    out.op = "reset" =>
        /\ reset_rng = first.rng => Outcome = first.outcome
        /\ \A i \in 1..Len(controlled_vehicles) :
              controlled_vehicles[i].heading
                  = RandHeading(RngAfter(reset_rng, i - 1))
        /\ goal = GoalOn(RandChoice(
                      RngAfter(reset_rng, config.controlled_vehicles),
                      lanes_list(road.network)))

C8_SecondResetSameSeed ==
    /\ out.op = "reset"
    /\ episode = 1
    /\ reset_rng = first.rng
    /\ config.controlled_vehicles = 2

\* C9: right after a reset there are 2 * 15 lanes, one goal, at the midpoint
\* of one of these lanes and the only object of the road, and
\* controlled_vehicles vehicles, the i-th at (20 * i, 0), at rest and not
\* crashed.
C9_ResetRebuildsEpisode ==
    out.op = "reset" =>
        /\ road.network = CreateNetwork(15)
        /\ Len(lanes_list(road.network)) = 30
        /\ road.objects = <<goal>>
        /\ \E j \in 1..30 :
              LET lane == lanes_list(road.network)[j]
              IN  /\ goal.position =
                        <<lane.start[1], (lane.start[2] + lane.end[2]) \div 2>>
                  /\ goal.heading = LaneHeading(lane)
        /\ Len(controlled_vehicles) = config.controlled_vehicles
        /\ Len(road.vehicles) = config.controlled_vehicles
        /\ \A i \in 1..Len(controlled_vehicles) :
              /\ controlled_vehicles[i].position = <<200 * (i - 1), 0>>
              /\ controlled_vehicles[i].speed = 0
              /\ ~controlled_vehicles[i].crashed

C9_LaterEpisode ==
    /\ out.op = "reset"
    /\ episode = 1
    /\ config.controlled_vehicles = 2
    /\ goal # first.outcome.goal

\* C10 as stated: once a step has returned terminal, the next step of the
\* same episode returns terminal too.
C10_TerminalAbsorbing ==
    [][(StepReturned /\ out.terminal /\ out'.op = "step") => out'.terminal]_vars

\* C10, amended: once a step has returned terminal with steps >= duration or
\* a controlled vehicle crashed, the next step of the same episode returns
\* terminal too.
C10_TimeoutAndCollisionAbsorbing ==
    [][(/\ StepReturned
        /\ out.terminal
        /\ (steps >= config.duration \/ AnyCrashed)
        /\ out'.op = "step") => out'.terminal]_vars

C10_StepAfterTimeout ==
    /\ StepReturned
    /\ config.duration > 0
    /\ steps > config.duration
    /\ ~AnyCrashed
    /\ ~AllSuccess
    /\ out.terminal

====
